---- MODULE Spec2Model ----
(***************************************************************************)
(* Model of cmake_config_tool/app.py: a Flask front end that scans the     *)
(* option(...) declarations of CMakeLists.txt, stores the chosen values in *)
(* cmake_config.yaml, and runs cmake in a scratch build directory.         *)
(*                                                                         *)
(* The state is the part of the machine the handlers touch (the build      *)
(* directory, the settings file, the child processes) and, for each        *)
(* request being handled, the handler's position and locals.  Every        *)
(* action is one system call of a handler together with the local          *)
(* computation that follows it up to the next system call.                 *)
(***************************************************************************)
EXTENDS Integers, Sequences, FiniteSets, TLC

\* ------------------------------------------------------------------ bounds
\* Requests the server can have in flight at once.
MaxThreads == 2
\* Lines a child process writes before it exits.
MaxLines == 2
\* Declarations in a CMakeLists.txt drawn for the scanner.
MaxDecls == 2

Threads == 1..MaxThreads

\* ------------------------------------------------------------------ tokens
\* CMakeLists.txt is a sequence of tokens.  A token is the literal
\* "option(", a run of word characters, a run of white space, a double
\* quote, a closing parenthesis, or other text free of quotes.
KW == "option("
QUOTE == "\""
RPAREN == ")"
SP == " "
NL == "\n"

IsSpace(tok) == tok \in {SP, NL}
\* \w+ : letters, digits and underscores only.
IsWord(tok) == tok \in {"FOO", "BAR", "ZED", "ON", "OFF", "on", "foo"}

\* ------------------------------------------------------------------ dicts
\* A Python dict: a sequence of [key, entry] with distinct keys, in
\* insertion order.
Keys(d) == {d[i].key : i \in 1..Len(d)}
HasKey(d, k) == \E i \in 1..Len(d) : d[i].key = k
Get(d, k) == d[CHOOSE i \in 1..Len(d) : d[i].key = k].entry
\* d[k] = e : an existing key keeps its position.
DictSet(d, k, e) ==
    IF HasKey(d, k)
    THEN [i \in 1..Len(d) |-> IF d[i].key = k THEN [key |-> k, entry |-> e] ELSE d[i]]
    ELSE Append(d, [key |-> k, entry |-> e])
\* Python's == on dicts: same keys, same entries, whatever the order.
DictEq(a, b) ==
    /\ Keys(a) = Keys(b)
    /\ \A k \in Keys(a) : Get(a, k) = Get(b, k)

\* ------------------------------------------------------------------ scanner
\* First index >= i of a token that is not white space (Len+1 if none).
RECURSIVE SkipSpace(_, _)
SkipSpace(text, i) ==
    IF i <= Len(text) /\ IsSpace(text[i]) THEN SkipSpace(text, i + 1) ELSE i

\* First index >= i of a double quote (Len+1 if none).
RECURSIVE NextQuote(_, _)
NextQuote(text, i) ==
    IF i <= Len(text) /\ text[i] # QUOTE THEN NextQuote(text, i + 1) ELSE i

NoMatch == [found |-> FALSE, name |-> "", description |-> <<>>, token |-> "", end |-> 0]

\* re.match of  option\((\w+)\s+"([^"]+)"\s+(\w+)\)  at position i.
MatchAt(text, i) ==
    LET n == Len(text)
        q1 == SkipSpace(text, i + 2)
        q2 == NextQuote(text, q1 + 1)
        w == SkipSpace(text, q2 + 1)
    IN  IF /\ i + 1 <= n
           /\ text[i] = KW
           /\ IsWord(text[i + 1])
           /\ q1 > i + 2
           /\ q1 <= n
           /\ text[q1] = QUOTE
           /\ q2 <= n
           /\ q2 > q1 + 1
           /\ w > q2 + 1
           /\ w + 1 <= n
           /\ IsWord(text[w])
           /\ text[w + 1] = RPAREN
        THEN [found |-> TRUE, name |-> text[i + 1],
              description |-> SubSeq(text, q1 + 1, q2 - 1),
              token |-> text[w], end |-> w + 1]
        ELSE NoMatch

\* A variant of the comparison that ignores case (.upper() == 'ON').
OptionEntryIgnoreCase(m) ==
    [description |-> m.description, value |-> (m.token \in {"ON", "on"})]

\* Lines 33-39: the entry of one match.
OptionEntry(m) == [description |-> m.description, value |-> (m.token = "ON")]

\* re.finditer, and the loop over its matches filling the dict.
RECURSIVE ScanFrom(_, _, _)
ScanFrom(text, i, options) ==
    IF i > Len(text) THEN options
    ELSE LET m == MatchAt(text, i)
         IN  IF m.found
             THEN ScanFrom(text, m.end + 1, DictSet(options, m.name, OptionEntry(m)))
             ELSE ScanFrom(text, i + 1, options)

read_cmake_options(text) == ScanFrom(text, 1, <<>>)

\* ------------------------------------------------------------------ CMakeLists.txt
\* A declaration as written in the file.  shape "ok" is
\* option(<name> "<description>" <token>); "noquote" leaves the quotes
\* out; "noparen" leaves the closing parenthesis out; "comment" is an
\* "ok" declaration commented out with a leading #.
DeclNames == {"FOO", "BAR"}
DeclDescriptions == {<<"enable foo">>, <<>>}
DeclTokens == {"ON", "OFF", "on"}
DeclShapes == {"ok", "noquote", "noparen", "comment"}
Decls == [name : DeclNames, description : DeclDescriptions,
          token : DeclTokens, shape : DeclShapes]

Render(d) ==
    CASE d.shape = "ok" ->
           <<KW, d.name, SP, QUOTE>> \o d.description \o <<QUOTE, SP, d.token, RPAREN, NL>>
      [] d.shape = "noquote" ->
           <<KW, d.name, SP>> \o d.description \o <<SP, d.token, RPAREN, NL>>
      [] d.shape = "noparen" ->
           <<KW, d.name, SP, QUOTE>> \o d.description \o <<QUOTE, SP, d.token, NL>>
      [] d.shape = "comment" ->
           <<"#", SP, KW, d.name, SP, QUOTE>> \o d.description
               \o <<QUOTE, SP, d.token, RPAREN, NL>>

RECURSIVE RenderText(_)
RenderText(ds) == IF ds = <<>> THEN <<>> ELSE Render(Head(ds)) \o RenderText(Tail(ds))

DeclLists == UNION {[1..n -> Decls] : n \in 0..MaxDecls}

\* The project's CMakeLists.txt while the server runs.
ProjectDecls ==
    << [name |-> "FOO", description |-> <<"enable foo">>, token |-> "ON", shape |-> "ok"],
       [name |-> "BAR", description |-> <<"enable bar">>, token |-> "OFF", shape |-> "ok"] >>

\* ------------------------------------------------------------------ settings file
\* cmake_config.yaml: absent, empty (opened for writing, nothing written
\* yet), a YAML document, or bytes of two overlapping writes.
FileAbsent == [kind |-> "absent", doc |-> <<>>]
FileEmpty == [kind |-> "empty", doc |-> <<>>]
FileGarbled == [kind |-> "garbled", doc |-> <<>>]
FileDoc(doc) == [kind |-> "doc", doc |-> doc]

\* yaml.dump writes a mapping's keys in sorted order.
KeyOrder == <<"BAR", "FOO", "ZED">>
RECURSIVE DumpFrom(_, _)
DumpFrom(options, i) ==
    IF i > Len(KeyOrder) THEN <<>>
    ELSE (IF HasKey(options, KeyOrder[i])
          THEN <<[key |-> KeyOrder[i], entry |-> Get(options, KeyOrder[i])]>>
          ELSE <<>>) \o DumpFrom(options, i + 1)
yaml_dump(options) == DumpFrom(options, 1)

\* What load_saved_options returns: raised, or the loaded value, None
\* when there is no file or the file holds no document.
Loaded(v) == [raised |-> FALSE, none |-> FALSE, value |-> v]
LoadedNone == [raised |-> FALSE, none |-> TRUE, value |-> <<>>]
LoadRaised == [raised |-> TRUE, none |-> FALSE, value |-> <<>>]

load_saved_options(file) ==
    CASE file.kind = "absent" -> LoadedNone
      [] file.kind = "empty" -> LoadedNone
      [] file.kind = "garbled" -> LoadRaised
      [] file.kind = "doc" -> Loaded(file.doc)

\* ------------------------------------------------------------------ requests
\* The JSON body of save and apply: a mapping from identifiers to entries.
\* Nothing validates it, so an entry may come without its value.
WithValue(v) == [description |-> <<"enable foo">>, value |-> v]
WithoutValue == [description |-> <<"enable foo">>]
Item(k, e) == [key |-> k, entry |-> e]
Bodies ==
    { <<>>,
      <<Item("FOO", WithValue(FALSE))>>,
      <<Item("FOO", WithValue(TRUE)), Item("ZED", WithValue(FALSE))>>,
      <<Item("ZED", WithValue(TRUE)), Item("FOO", WithValue(FALSE))>>,
      <<Item("FOO", WithoutValue)>> }

HasValue(entry) == "value" \in DOMAIN entry

\* ------------------------------------------------------------------ state
VARIABLES
    threaded,      \* app.run serves requests on a thread each (Flask >= 1.0) or one at a time
    envTEMP,       \* os.environ.get('TEMP'): "" when unset
    cmakeDecls,    \* CMakeLists.txt, as the declarations written in it
    dirs,          \* the file system: for each path, whether the directory exists, and its entries
    settingsFile,  \* cmake_config.yaml
    route,         \* the handler each request slot is running: "" when it is free
    pc,            \* each request slot's position in its handler
    body,          \* request.get_json() of save and apply
    options,       \* index: the local dict `options`
    saved,         \* index: the local `saved_options`
    cmake_cmd,     \* apply: the local list `cmake_cmd`
    build_dir,     \* the local `build_dir`
    output,        \* apply: the local list `output`
    child,         \* the subprocess.Popen object and the process behind it
    resp           \* what the client has received

vars == <<threaded, envTEMP, cmakeDecls, dirs, settingsFile, route, pc, body, options, saved,
          cmake_cmd, build_dir, output, child, resp>>

\* What no request changes, and what no step of a handler changes.
env == <<threaded, envTEMP, cmakeDecls>>
shared == <<env, route>>

cmakeText == RenderText(cmakeDecls)

\* ------------------------------------------------------------------ build directory
TempDir == "C:/Temp"
Paths == {"C:/Temp/aimrt_build", "~/aimrt_build"}
\* os.path.join(os.environ.get('TEMP', os.path.expanduser('~')), 'aimrt_build')
BuildDirPath(temp) == IF temp = "" THEN "~/aimrt_build" ELSE "C:/Temp/aimrt_build"
ProjectRoot == "project"

\* What cmake leaves in the build directory.
DirEntries == {"CMakeFiles"}
NoDir == [exists |-> FALSE, entries |-> {}]
EmptyDir == [exists |-> TRUE, entries |-> {}]

\* ------------------------------------------------------------------ child processes
NoChild == [state |-> "none", argv |-> <<>>, cwd |-> "", emitted |-> 0, pipe |-> <<>>, rc |-> 0]
Line(n) == [n |-> n, text |-> "line"]
SuccessSentinel == [n |-> 0, text |-> "\nBuild completed successfully!\n"]
FailureSentinel == [n |-> 0, text |-> "\nBuild failed with errors.\n"]

\* ------------------------------------------------------------------ responses
NoResp == [kind |-> "none", status |-> "", message |-> "", output |-> <<>>,
           options |-> <<>>, exists |-> FALSE, path |-> "", ended |-> FALSE]
\* jsonify({'status': ..., 'message' or 'output': ...})
Json(status, message, out) ==
    [NoResp EXCEPT !.kind = "json", !.status = status, !.message = message,
                   !.output = out, !.ended = TRUE]
\* render_template('index.html', options=..., build_status=...)
Page(opts, ex, path) ==
    [NoResp EXCEPT !.kind = "page", !.options = opts, !.exists = ex, !.path = path,
                   !.ended = TRUE]
\* An exception that leaves the handler: the client gets no structured
\* answer.  `message` names the call that raised.
Fault(r, call) == [r EXCEPT !.kind = "fault", !.message = call, !.ended = TRUE]

\* The server as app.run starts it, over a given CMakeLists.txt.
InitOver(decls) ==
    /\ threaded \in BOOLEAN
    /\ envTEMP \in {"", TempDir}
    /\ cmakeDecls = decls
    \* __main__ calls get_build_dir() before app.run; the directory may
    \* hold what an earlier run left.
    /\ \E es \in SUBSET DirEntries :
         dirs = [p \in Paths |-> IF p = BuildDirPath(envTEMP)
                                 THEN [exists |-> TRUE, entries |-> es] ELSE NoDir]
    /\ settingsFile = FileAbsent
    /\ route = [t \in Threads |-> ""]
    /\ pc = [t \in Threads |-> "idle"]
    /\ body = [t \in Threads |-> <<>>]
    /\ options = [t \in Threads |-> <<>>]
    /\ saved = [t \in Threads |-> LoadedNone]
    /\ cmake_cmd = [t \in Threads |-> <<>>]
    /\ build_dir = [t \in Threads |-> ""]
    /\ output = [t \in Threads |-> <<>>]
    /\ child = [t \in Threads |-> NoChild]
    /\ resp = [t \in Threads |-> NoResp]

Init == InitOver(ProjectDecls)

\* ------------------------------------------------------------------ steps shared by handlers
Goto(t, where) == pc' = [pc EXCEPT ![t] = where]
Respond(t, r) == /\ pc' = [pc EXCEPT ![t] = "done"]
                 /\ resp' = [resp EXCEPT ![t] = r]

\* The server takes a request: always when threaded, else only when no
\* other request is being handled.
Accepts(t) ==
    /\ pc[t] = "idle"
    /\ threaded \/ \A u \in Threads : pc[u] = "idle"

\* A variant of get_build_dir that computes the path and creates nothing.
get_build_dir_no_makedirs(t, next) ==
    /\ build_dir' = [build_dir EXCEPT ![t] = BuildDirPath(envTEMP)]
    /\ Goto(t, next)
    /\ UNCHANGED <<dirs, resp>>

\* get_build_dir(): os.makedirs(build_dir, exist_ok=True), which may raise
\* when it has to create the directory.
get_build_dir(t, next) ==
    LET p == BuildDirPath(envTEMP)
    IN  \/ /\ dirs[p].exists
           /\ build_dir' = [build_dir EXCEPT ![t] = p]
           /\ Goto(t, next)
           /\ UNCHANGED <<dirs, resp>>
        \/ /\ ~dirs[p].exists
           /\ dirs' = [dirs EXCEPT ![p] = EmptyDir]
           /\ build_dir' = [build_dir EXCEPT ![t] = p]
           /\ Goto(t, next)
           /\ UNCHANGED resp
        \/ /\ ~dirs[p].exists
           /\ Respond(t, Fault(resp[t], "makedirs"))
           /\ UNCHANGED <<dirs, build_dir>>

\* A variant of the open that does not truncate (mode 'r+' for 'w').
OpenWithoutTruncate ==
    settingsFile' = IF settingsFile.kind = "absent" THEN FileEmpty ELSE settingsFile

\* save_cmake_options, line 45: open(config_path, 'w') creates or
\* truncates the file.
OpenForWrite == settingsFile' = FileEmpty

\* save_cmake_options, line 46: yaml.dump(options, f) and the close that
\* flushes it.  The bytes land at offset 0; when bytes written since the
\* open are already there, the file ends as this document or as a mix
\* that is no document.
DumpToFile(t) ==
    \/ settingsFile' = FileDoc(yaml_dump(body[t]))
    \/ /\ settingsFile.kind \in {"doc", "garbled"}
       /\ settingsFile' = FileGarbled

\* ------------------------------------------------------------------ GET /
StartIndex(t) ==
    /\ Accepts(t)
    /\ route' = [route EXCEPT ![t] = "index"]
    /\ Goto(t, "index_load")
    /\ UNCHANGED <<env, dirs, settingsFile, body, options, saved, cmake_cmd,
                   build_dir, output, child, resp>>

\* A variant of the merge that also takes over the snapshot's other keys
\* (options.update(saved_options)).
MergeUpdate(opts, snapshot) ==
    LET extra == SelectSeq(snapshot, LAMBDA it : ~HasKey(opts, it.key))
    IN  [i \in 1..Len(opts) |->
            IF HasKey(snapshot, opts[i].key)
            THEN [key |-> opts[i].key, entry |-> Get(snapshot, opts[i].key)]
            ELSE opts[i]] \o extra

\* The loop of index: for key in options: if key in saved_options:
\* options[key]['value'] = saved_options[key]['value'].
MergeRaises(opts, snapshot) ==
    \E i \in 1..Len(opts) :
        HasKey(snapshot, opts[i].key) /\ ~HasValue(Get(snapshot, opts[i].key))
Merge(opts, snapshot) ==
    [i \in 1..Len(opts) |->
        IF HasKey(snapshot, opts[i].key)
        THEN [key |-> opts[i].key,
              entry |-> [opts[i].entry EXCEPT !.value = Get(snapshot, opts[i].key).value]]
        ELSE opts[i]]

\* read_cmake_options(), load_saved_options() and the merge.
IndexLoad(t) ==
    /\ pc[t] = "index_load"
    /\ LET scanned == read_cmake_options(cmakeText)
           loaded == load_saved_options(settingsFile)
       IN  IF loaded.raised
           THEN /\ Respond(t, Fault(resp[t], "yaml.safe_load"))
                /\ UNCHANGED <<options, saved>>
           ELSE /\ saved' = [saved EXCEPT ![t] = loaded]
                /\ IF loaded.none \/ loaded.value = <<>>
                   THEN /\ options' = [options EXCEPT ![t] = scanned]
                        /\ Goto(t, "index_resolve")
                        /\ UNCHANGED resp
                   ELSE IF MergeRaises(scanned, loaded.value)
                   THEN /\ options' = [options EXCEPT ![t] = scanned]
                        /\ Respond(t, Fault(resp[t], "KeyError"))
                   ELSE /\ options' = [options EXCEPT ![t] = Merge(scanned, loaded.value)]
                        /\ Goto(t, "index_resolve")
                        /\ UNCHANGED resp
    /\ UNCHANGED <<shared, dirs, settingsFile, body, cmake_cmd, build_dir, output, child>>

IndexResolve(t) ==
    /\ pc[t] = "index_resolve"
    /\ get_build_dir(t, "index_render")
    /\ UNCHANGED <<shared, settingsFile, body, options, saved, cmake_cmd, output, child>>

\* os.path.exists(build_dir) and render_template.
IndexRender(t) ==
    /\ pc[t] = "index_render"
    /\ Respond(t, Page(options[t], dirs[build_dir[t]].exists, build_dir[t]))
    /\ UNCHANGED <<shared, dirs, settingsFile, body, options, saved, cmake_cmd,
                   build_dir, output, child>>

\* ------------------------------------------------------------------ POST /save
StartSave(t) ==
    /\ Accepts(t)
    /\ route' = [route EXCEPT ![t] = "save"]
    /\ \E b \in Bodies : body' = [body EXCEPT ![t] = b]
    /\ Goto(t, "save_open")
    /\ UNCHANGED <<env, dirs, settingsFile, options, saved, cmake_cmd,
                   build_dir, output, child, resp>>

SaveOpen(t) ==
    /\ pc[t] = "save_open"
    /\ OpenForWrite
    /\ Goto(t, "save_write")
    /\ UNCHANGED <<shared, dirs, body, options, saved, cmake_cmd, build_dir,
                   output, child, resp>>

SaveWrite(t) ==
    /\ pc[t] = "save_write"
    /\ DumpToFile(t)
    /\ Respond(t, Json("success", "", <<>>))
    /\ UNCHANGED <<shared, dirs, body, options, saved, cmake_cmd, build_dir,
                   output, child>>

\* ------------------------------------------------------------------ POST /clean
StartClean(t) ==
    /\ Accepts(t)
    /\ route' = [route EXCEPT ![t] = "clean"]
    /\ Goto(t, "clean_resolve")
    /\ UNCHANGED <<env, dirs, settingsFile, body, options, saved, cmake_cmd,
                   build_dir, output, child, resp>>

CleanResolve(t) ==
    /\ pc[t] = "clean_resolve"
    /\ get_build_dir(t, "clean_rmtree")
    /\ UNCHANGED <<shared, settingsFile, body, options, saved, cmake_cmd, output, child>>

\* shutil.rmtree(build_dir): removes the tree, or raises with the
\* directory gone already, or raises part-way with the directory left.
rmtree(t) ==
    LET p == build_dir[t]
    IN  \/ /\ dirs[p].exists
           /\ dirs' = [dirs EXCEPT ![p] = NoDir]
           /\ Goto(t, "clean_makedirs")
           /\ UNCHANGED resp
        \/ /\ dirs[p].exists
           /\ \E left \in SUBSET dirs[p].entries :
                dirs' = [dirs EXCEPT ![p] = [exists |-> TRUE, entries |-> left]]
           /\ Respond(t, Json("error", "rmtree", <<>>))
        \/ /\ ~dirs[p].exists
           /\ Respond(t, Json("error", "rmtree", <<>>))
           /\ UNCHANGED dirs

CleanRmtree(t) ==
    /\ pc[t] = "clean_rmtree"
    /\ rmtree(t)
    /\ UNCHANGED <<shared, settingsFile, body, options, saved, cmake_cmd, build_dir,
                   output, child>>

\* A variant of makedirs that swallows the exception and reports success.
makedirs_unchecked(t) ==
    LET p == build_dir[t]
    IN  /\ Respond(t, Json("success", "Build directory cleaned successfully", <<>>))
        /\ \/ /\ ~dirs[p].exists
              /\ dirs' = [dirs EXCEPT ![p] = EmptyDir]
           \/ UNCHANGED dirs

\* A variant of makedirs called with exist_ok=True.
makedirs_exist_ok(t) ==
    LET p == build_dir[t]
    IN  \/ /\ dirs' = [dirs EXCEPT ![p].exists = TRUE]
           /\ Respond(t, Json("success", "Build directory cleaned successfully", <<>>))
        \/ /\ ~dirs[p].exists
           /\ Respond(t, Json("error", "makedirs", <<>>))
           /\ UNCHANGED dirs

\* os.makedirs(build_dir), without exist_ok, and the return.
makedirs(t) ==
    LET p == build_dir[t]
    IN  \/ /\ ~dirs[p].exists
           /\ dirs' = [dirs EXCEPT ![p] = EmptyDir]
           /\ Respond(t, Json("success", "Build directory cleaned successfully", <<>>))
        \/ /\ Respond(t, Json("error", "makedirs", <<>>))
           /\ UNCHANGED dirs

CleanMakedirs(t) ==
    /\ pc[t] = "clean_makedirs"
    /\ makedirs(t)
    /\ UNCHANGED <<shared, settingsFile, body, options, saved, cmake_cmd, build_dir,
                   output, child>>

\* ------------------------------------------------------------------ POST /apply
StartApply(t) ==
    /\ Accepts(t)
    /\ route' = [route EXCEPT ![t] = "apply"]
    /\ \E b \in Bodies : body' = [body EXCEPT ![t] = b]
    /\ Goto(t, "apply_open")
    /\ UNCHANGED <<env, dirs, settingsFile, options, saved, cmake_cmd,
                   build_dir, output, child, resp>>

ApplyOpen(t) ==
    /\ pc[t] = "apply_open"
    /\ OpenForWrite
    /\ Goto(t, "apply_write")
    /\ UNCHANGED <<shared, dirs, body, options, saved, cmake_cmd, build_dir,
                   output, child, resp>>

ApplyWrite(t) ==
    /\ pc[t] = "apply_write"
    /\ DumpToFile(t)
    /\ Goto(t, "apply_resolve")
    /\ UNCHANGED <<shared, dirs, body, options, saved, cmake_cmd, build_dir,
                   output, child, resp>>

ApplyResolve(t) ==
    /\ pc[t] = "apply_resolve"
    /\ get_build_dir(t, "apply_cmd")
    /\ UNCHANGED <<shared, settingsFile, body, options, saved, cmake_cmd, output, child>>

\* One argument of the command line: a plain word, or -D<name>=<value>.
Arg(word) == [define |-> FALSE, name |-> word, value |-> ""]
Define(name, value) == [define |-> TRUE, name |-> name, value |-> value]

\* A variant of the and/or idiom with its operands the wrong way round
\* (value["value"] and "OFF" or "ON").
OnOffSwapped(entry) == IF entry.value THEN "OFF" ELSE "ON"

\* value["value"] and "ON" or "OFF"
OnOff(entry) == IF entry.value THEN "ON" ELSE "OFF"

\* cmake_cmd = ['cmake', project_dir], then one append per item of options.
RECURSIVE AppendDefines(_, _)
AppendDefines(cmd, items) ==
    IF items = <<>> THEN cmd
    ELSE AppendDefines(Append(cmd, Define(Head(items).key, OnOff(Head(items).entry))),
                       Tail(items))
CmakeCmd(opts) == AppendDefines(<<Arg("cmake"), Arg(ProjectRoot)>>, opts)

ApplyCmd(t) ==
    /\ pc[t] = "apply_cmd"
    /\ IF \E i \in 1..Len(body[t]) : ~HasValue(body[t][i].entry)
       THEN /\ Respond(t, Fault(resp[t], "KeyError"))
            /\ UNCHANGED cmake_cmd
       ELSE /\ cmake_cmd' = [cmake_cmd EXCEPT ![t] = CmakeCmd(body[t])]
            /\ Goto(t, "apply_popen")
            /\ UNCHANGED resp
    /\ UNCHANGED <<shared, dirs, settingsFile, body, options, saved, build_dir,
                   output, child>>

\* subprocess.Popen(argv, cwd=build_dir): starts the child, or raises
\* (no cmake on the PATH, or no such working directory).
Started(t, argv) ==
    /\ dirs[build_dir[t]].exists
    /\ child' = [child EXCEPT ![t] = [NoChild EXCEPT !.state = "running", !.argv = argv,
                                                     !.cwd = build_dir[t]]]

\* The try block of apply up to Popen, and its except clause.
ApplyPopen(t) ==
    /\ pc[t] = "apply_popen"
    /\ \/ /\ Started(t, cmake_cmd[t])
          /\ Goto(t, "apply_read")
          /\ UNCHANGED resp
       \/ /\ Respond(t, Json("error", "Popen", <<>>))
          /\ UNCHANGED child
    /\ UNCHANGED <<shared, dirs, settingsFile, body, options, saved, cmake_cmd,
                   build_dir, output>>

\* A variant of the end of the loop that does not wait for the child: the
\* loop ends as soon as nothing is left to read.
AtEofNoWait(t) == child[t].pipe = <<>>

\* for line in process.stdout: the next line, or the end of the file
\* once the child has exited and the pipe is drained.
AtEof(t) == child[t].state = "exited" /\ child[t].pipe = <<>>
HasLine(t) == child[t].pipe # <<>>
TakeLine(t) == child' = [child EXCEPT ![t].pipe = Tail(@)]

ApplyRead(t) ==
    /\ pc[t] = "apply_read"
    /\ \/ /\ HasLine(t)
          /\ output' = [output EXCEPT ![t] = Append(@, Head(child[t].pipe))]
          /\ TakeLine(t)
          /\ UNCHANGED <<pc, resp>>
       \/ /\ AtEof(t)
          /\ Respond(t, Json(IF child[t].rc = 0 THEN "success" ELSE "error", "", output[t]))
          /\ UNCHANGED <<output, child>>
    /\ UNCHANGED <<shared, dirs, settingsFile, body, options, saved, cmake_cmd, build_dir>>

\* ------------------------------------------------------------------ POST /build
\* build() returns Response(generate()): the answer has begun, and the
\* server runs the generator to produce its body.
StartBuild(t) ==
    /\ Accepts(t)
    /\ route' = [route EXCEPT ![t] = "build"]
    /\ Goto(t, "build_resolve")
    /\ resp' = [resp EXCEPT ![t] = [NoResp EXCEPT !.kind = "stream"]]
    /\ UNCHANGED <<env, dirs, settingsFile, body, options, saved, cmake_cmd,
                   build_dir, output, child>>

BuildResolve(t) ==
    /\ pc[t] = "build_resolve"
    /\ get_build_dir(t, "build_popen")
    /\ UNCHANGED <<shared, settingsFile, body, options, saved, cmake_cmd, output, child>>

\* ['cmake', '--build', '.', '--parallel']
BuildCmd == <<Arg("cmake"), Arg("--build"), Arg("."), Arg("--parallel")>>

\* generate() has no except clause: a Popen that raises leaves the generator.
BuildPopen(t) ==
    /\ pc[t] = "build_popen"
    /\ \/ /\ Started(t, BuildCmd)
          /\ Goto(t, "build_read")
          /\ UNCHANGED resp
       \/ /\ Respond(t, Fault(resp[t], "Popen"))
          /\ UNCHANGED child
    /\ UNCHANGED <<shared, dirs, settingsFile, body, options, saved, cmake_cmd,
                   build_dir, output>>

Sentinel(rc) == IF rc = 0 THEN SuccessSentinel ELSE FailureSentinel

\* yield line, and after the loop process.wait() and the last yield.
BuildRead(t) ==
    /\ pc[t] = "build_read"
    /\ \/ /\ HasLine(t)
          /\ resp' = [resp EXCEPT ![t].output = Append(@, Head(child[t].pipe))]
          /\ TakeLine(t)
          /\ UNCHANGED pc
       \/ /\ AtEof(t)
          /\ Respond(t, [resp[t] EXCEPT !.output = Append(@, Sentinel(child[t].rc)),
                                        !.ended = TRUE])
          /\ UNCHANGED child
    /\ UNCHANGED <<shared, dirs, settingsFile, body, options, saved, cmake_cmd,
                   build_dir, output>>

\* ------------------------------------------------------------------ the cmake process
\* The child writes a line to its standard output.
ChildEmit(t) ==
    /\ child[t].state = "running"
    /\ child[t].emitted < MaxLines
    /\ child' = [child EXCEPT ![t].emitted = @ + 1,
                              ![t].pipe = Append(@, Line(child[t].emitted + 1))]
    /\ UNCHANGED <<shared, dirs, settingsFile, pc, body, options, saved, cmake_cmd,
                   build_dir, output, resp>>

\* The child writes into the build directory, if it is there.
ChildProduct(t) == "CMakeFiles"
ChildWrite(t) ==
    /\ child[t].state = "running"
    /\ dirs[child[t].cwd].exists
    /\ ChildProduct(t) \notin dirs[child[t].cwd].entries
    /\ dirs' = [dirs EXCEPT ![child[t].cwd].entries = @ \cup {ChildProduct(t)}]
    /\ UNCHANGED <<shared, settingsFile, pc, body, options, saved, cmake_cmd,
                   build_dir, output, child, resp>>

ChildExit(t) ==
    /\ child[t].state = "running"
    /\ \E rc \in {0, 1} : child' = [child EXCEPT ![t].state = "exited", ![t].rc = rc]
    /\ UNCHANGED <<shared, dirs, settingsFile, pc, body, options, saved, cmake_cmd,
                   build_dir, output, resp>>

\* ------------------------------------------------------------------ the server
\* The answer is with the client; the slot takes the next request.
Recycle(t) ==
    /\ pc[t] = "done"
    /\ route' = [route EXCEPT ![t] = ""]
    /\ pc' = [pc EXCEPT ![t] = "idle"]
    /\ body' = [body EXCEPT ![t] = <<>>]
    /\ options' = [options EXCEPT ![t] = <<>>]
    /\ saved' = [saved EXCEPT ![t] = LoadedNone]
    /\ cmake_cmd' = [cmake_cmd EXCEPT ![t] = <<>>]
    /\ build_dir' = [build_dir EXCEPT ![t] = ""]
    /\ output' = [output EXCEPT ![t] = <<>>]
    /\ child' = [child EXCEPT ![t] = NoChild]
    /\ resp' = [resp EXCEPT ![t] = NoResp]
    /\ UNCHANGED <<env, dirs, settingsFile>>

Next ==
    \E t \in Threads :
        \/ StartIndex(t) \/ IndexLoad(t) \/ IndexResolve(t) \/ IndexRender(t)
        \/ StartSave(t) \/ SaveOpen(t) \/ SaveWrite(t)
        \/ StartClean(t) \/ CleanResolve(t) \/ CleanRmtree(t) \/ CleanMakedirs(t)
        \/ StartApply(t) \/ ApplyOpen(t) \/ ApplyWrite(t) \/ ApplyResolve(t)
        \/ ApplyCmd(t) \/ ApplyPopen(t) \/ ApplyRead(t)
        \/ StartBuild(t) \/ BuildResolve(t) \/ BuildPopen(t) \/ BuildRead(t)
        \/ ChildEmit(t) \/ ChildWrite(t) \/ ChildExit(t)
        \/ Recycle(t)

Spec == Init /\ [][Next]_vars

\* ================================================================== properties
BuildDir == BuildDirPath(envTEMP)
\* Slot t's handler ends in this step.
Returns(t) == pc[t] # "done" /\ pc'[t] = "done"
\* ... with a normal answer: a page, a JSON answer (for clean, one of
\* status success), or a stream that ran to its end.
ReturnsSuccessfully(t) ==
    /\ Returns(t)
    /\ resp'[t].kind \in {"page", "json", "stream"}
    /\ route[t] = "clean" => resp'[t].status = "success"

\* C1 as claimed: under every interleaving of requests, the build
\* directory exists whenever a handler returns successfully.
C1_DirExistsAtEveryReturn ==
    [][\A t \in Threads : ReturnsSuccessfully(t) => dirs'[BuildDir].exists]_vars

\* C1 as amended: when the server handles one request at a time, the
\* build directory exists whenever index, clean, apply or build returns
\* successfully.  (save does not resolve the directory, and requests that
\* overlap a clean can return while the directory is removed.)
C1_DirExistsAtSerialReturn ==
    [][\A t \in Threads :
          (ReturnsSuccessfully(t) /\ ~threaded /\ route[t] # "save")
              => dirs'[BuildDir].exists]_vars

\* An apply that ran its child to the end, served alone.
C1_Witness ==
    \E t \in Threads :
        /\ ~threaded /\ pc[t] = "done" /\ route[t] = "apply"
        /\ resp[t].kind = "json" /\ resp[t].status = "success"
        /\ Len(resp[t].output) = 2
        /\ dirs[BuildDir].exists

\* C2: when clean reports success the build directory exists, is empty
\* and is the path clean resolved, which is still the build directory's
\* path; a removal that fails ends clean with a JSON answer of status
\* error and a message; and only clean's rmtree removes a directory.
CleanSucceeds(t) ==
    route[t] = "clean" /\ Returns(t) /\ resp'[t].status = "success"
RemovalFails(t) ==
    pc[t] = "clean_rmtree" /\ pc'[t] \notin {"clean_rmtree", "clean_makedirs"}
C2_CleanLeavesEmptyDir ==
    [][/\ \A t \in Threads :
            CleanSucceeds(t) =>
                /\ dirs'[BuildDir] = EmptyDir
                /\ build_dir[t] = BuildDir
                /\ BuildDirPath(envTEMP') = BuildDir
       /\ \A t \in Threads :
            RemovalFails(t) =>
                /\ pc'[t] = "done"
                /\ resp'[t].kind = "json"
                /\ resp'[t].status = "error"
                /\ resp'[t].message # ""
       /\ \A p \in Paths :
            (dirs[p].exists /\ ~dirs'[p].exists) =>
                \E t \in Threads : pc[t] = "clean_rmtree" /\ pc'[t] = "clean_makedirs"
      ]_vars

C2_Witness ==
    \E t \in Threads :
        /\ pc[t] = "done" /\ route[t] = "clean" /\ resp[t].status = "success"
        /\ dirs[BuildDir] = EmptyDir /\ build_dir[t] = BuildDir

\* C3: the page shows exactly the scanner's identifiers, in its order and
\* with its descriptions; an identifier the snapshot has too shows the
\* snapshot's value, any other the scanner's default; identifiers only in
\* the snapshot do not show.
Snapshot(t) == IF saved[t].none THEN <<>> ELSE saved[t].value
C3_MergePolicy ==
    \A t \in Threads :
        (pc[t] = "done" /\ resp[t].kind = "page") =>
            LET S == read_cmake_options(cmakeText)
                P == Snapshot(t)
                D == resp[t].options
            IN  /\ Len(D) = Len(S)
                /\ \A i \in 1..Len(S) :
                     /\ D[i].key = S[i].key
                     /\ D[i].entry.description = S[i].entry.description
                     /\ D[i].entry.value = IF S[i].key \in Keys(P)
                                           THEN Get(P, S[i].key).value
                                           ELSE S[i].entry.value

\* Scanner {FOO: true, BAR: false} and snapshot {FOO: false, ZED: true}
\* show as {FOO: false, BAR: false}.
C3_Witness ==
    \E t \in Threads :
        /\ pc[t] = "done" /\ resp[t].kind = "page"
        /\ Keys(Snapshot(t)) = {"FOO", "ZED"}
        /\ [i \in 1..Len(resp[t].options) |->
              <<resp[t].options[i].key, resp[t].options[i].entry.value>>]
           = << <<"FOO", FALSE>>, <<"BAR", FALSE>> >>

\* C4: with requests handled one after the other, load() returns None
\* while nothing was saved; right after the write of a save or an apply it
\* returns a mapping equal to that request's mapping (same identifiers,
\* same entries, nothing else); and only the open and the write of a save
\* or an apply change the file.
WritesSettings(t) == pc[t] \in {"save_write", "apply_write"} /\ pc'[t] # pc[t]
TouchesSettings(t) ==
    pc[t] \in {"save_open", "save_write", "apply_open", "apply_write"} /\ pc'[t] # pc[t]
C4_RoundTripLastWriteWins ==
    /\ load_saved_options(settingsFile).none
    /\ [][~threaded =>
            /\ \A t \in Threads :
                 WritesSettings(t) =>
                    LET loaded == load_saved_options(settingsFile')
                    IN  /\ ~loaded.raised
                        /\ ~loaded.none
                        /\ DictEq(loaded.value, body[t])
            /\ settingsFile' # settingsFile => \E t \in Threads : TouchesSettings(t)
         ]_vars

\* A save whose mapping comes back equal though the file lists it in
\* another order.
C4_Witness ==
    \E t \in Threads :
        /\ ~threaded /\ pc[t] = "done" /\ route[t] = "save"
        /\ Len(body[t]) = 2
        /\ settingsFile.kind = "doc"
        /\ settingsFile.doc # body[t]
        /\ DictEq(load_saved_options(settingsFile).value, body[t])

\* C6: the configure child's arguments are cmake, the project path, and
\* then one define per item of the mapping, in the mapping's order: ON
\* for a true value, OFF for a false one.
C6_ConfigureArguments ==
    \A t \in Threads :
        (route[t] = "apply" /\ child[t].state # "none") =>
            LET argv == child[t].argv
            IN  /\ Len(argv) = 2 + Len(body[t])
                /\ argv[1] = Arg("cmake")
                /\ argv[2] = Arg(ProjectRoot)
                /\ \A i \in 1..Len(body[t]) :
                     /\ argv[i + 2].define
                     /\ argv[i + 2].name = body[t][i].key
                     /\ body[t][i].entry.value = TRUE => argv[i + 2].value = "ON"
                     /\ body[t][i].entry.value = FALSE => argv[i + 2].value = "OFF"

C6_Witness ==
    \E t \in Threads :
        /\ route[t] = "apply" /\ child[t].state = "running"
        /\ child[t].argv = <<Arg("cmake"), Arg(ProjectRoot),
                             Define("ZED", "ON"), Define("FOO", "OFF")>>

\* C8 as claimed: a child that cannot be started ends the request with an
\* error result, in apply and in build alike, never with an exception
\* that leaves the handler.
C8_LaunchFailureIsCaptured ==
    \A t \in Threads :
        (pc[t] = "done" /\ resp[t].message = "Popen") =>
            resp[t].kind = "json" /\ resp[t].status = "error"

\* C9 as claimed: whatever the settings file holds, index renders the
\* page; a snapshot that cannot be used is treated as no snapshot.
C9_SettingsReadNeverFatal ==
    \A t \in Threads :
        (pc[t] = "done" /\ route[t] = "index") =>
            ~(resp[t].kind = "fault" /\ resp[t].message \in {"KeyError", "yaml.safe_load"})

\* C10 as claimed: under every interleaving, the directory exists when a
\* child is about to be launched in it and when clean is about to remove
\* it.
NeedsDir(t) == pc[t] \in {"apply_popen", "build_popen", "clean_rmtree"}
C10_DirExistsWhenNeeded ==
    \A t \in Threads : NeedsDir(t) => dirs[build_dir[t]].exists

\* C10 as amended: the same, when the server handles one request at a
\* time.
C10_DirExistsWhenNeededSerial ==
    ~threaded => \A t \in Threads : NeedsDir(t) => dirs[build_dir[t]].exists

C10_Witness ==
    \E t \in Threads :
        ~threaded /\ pc[t] = "build_popen" /\ dirs[build_dir[t]] = EmptyDir

\* ------------------------------------------------------------------ the build stream
\* The server as in Spec, and it keeps running the generator of a build
\* answer: a step of the read loop that can be taken is taken.
FairSpec == Spec /\ \A t \in Threads : WF_vars(BuildRead(t))

\* C7: the stream of a build whose child started is the child's lines in
\* the order written, with no sentinel while the loop runs; when it has
\* ended the child has exited, every line is there, and exactly one
\* sentinel follows them: the success one iff the exit code is 0.  And
\* once the child has exited the stream does end so.
StreamSoFar(t) ==
    /\ Len(resp[t].output) <= child[t].emitted
    /\ \A i \in 1..Len(resp[t].output) : resp[t].output[i] = Line(i)
StreamEnded(t) ==
    /\ pc[t] = "done"
    /\ resp[t].kind = "stream"
    /\ resp[t].ended
    /\ child[t].state = "exited"
    /\ Len(resp[t].output) = child[t].emitted + 1
    /\ \A i \in 1..child[t].emitted : resp[t].output[i] = Line(i)
    /\ resp[t].output[child[t].emitted + 1] =
          (IF child[t].rc = 0 THEN SuccessSentinel ELSE FailureSentinel)
    /\ SuccessSentinel # FailureSentinel
C7_BuildStream ==
    /\ [](\A t \in Threads :
            (route[t] = "build" /\ child[t].state # "none") =>
                IF pc[t] = "done" THEN StreamEnded(t) ELSE StreamSoFar(t))
    /\ \A t \in Threads :
          (route[t] = "build" /\ child[t].state = "exited") ~> StreamEnded(t)

C7_Witness ==
    \E t \in Threads :
        /\ route[t] = "build" /\ pc[t] = "done"
        /\ resp[t].output = <<Line(1), Line(2), FailureSentinel>>
        /\ child[t].rc = 1

\* ------------------------------------------------------------------ the scanner
\* The configuration page served over any CMakeLists.txt of up to
\* MaxDecls declarations, with no settings saved.
ScanInit ==
    /\ \E ds \in DeclLists : InitOver(ds)
    /\ ~threaded
    /\ envTEMP = ""
    /\ dirs[BuildDirPath("")] = EmptyDir
ScanNext ==
    \E t \in Threads :
        \/ StartIndex(t) \/ IndexLoad(t) \/ IndexResolve(t) \/ IndexRender(t)
        \/ Recycle(t)
ScanSpec == ScanInit /\ [][ScanNext]_vars

\* A declaration the claim counts as well-formed, and one the pattern
\* matches: the description between the quotes must not be empty, and
\* the pattern does not look at what precedes the keyword.
WellFormed(d) == d.shape = "ok"
Matched(d) == d.shape \in {"ok", "comment"} /\ d.description # <<>>
EntryOf(d) == [description |-> d.description, value |-> (d.token = "ON")]
Positions(Test(_)) == {i \in 1..Len(cmakeDecls) : Test(cmakeDecls[i])}
Max(S) == CHOOSE x \in S : \A y \in S : y <= x
Min(S) == CHOOSE x \in S : \A y \in S : x <= y

\* C5 as claimed: the scanner returns one entry for each well-formed
\* declaration, with that declaration's description and default, also
\* when identifiers repeat or a description is empty.
C5_EntryPerWellFormedDecl ==
    \A t \in Threads :
        (pc[t] = "done" /\ resp[t].kind = "page") =>
            LET D == resp[t].options
                W == Positions(WellFormed)
            IN  /\ Len(D) = Cardinality(W)
                /\ \A i \in W :
                     /\ HasKey(D, cmakeDecls[i].name)
                     /\ Get(D, cmakeDecls[i].name) = EntryOf(cmakeDecls[i])

\* C5 as amended: the scanner returns one entry for each distinct
\* identifier among the declarations the pattern matches (keyword,
\* identifier, quoted description that is not empty, word, closing
\* parenthesis, wherever they stand), in the order of their first
\* declarations, with the description and the default (true iff the token
\* is exactly ON) of the identifier's last matched declaration.
C5_EntryPerMatchedIdentifier ==
    \A t \in Threads :
        (pc[t] = "done" /\ resp[t].kind = "page") =>
            LET D == resp[t].options
                M == Positions(Matched)
                First(k) == Min({i \in M : cmakeDecls[i].name = k})
                Last(k) == Max({i \in M : cmakeDecls[i].name = k})
            IN  /\ Keys(D) = {cmakeDecls[i].name : i \in M}
                /\ Len(D) = Cardinality(Keys(D))
                /\ \A a, b \in 1..Len(D) : a < b => First(D[a].key) < First(D[b].key)
                /\ \A k \in Keys(D) : Get(D, k) = EntryOf(cmakeDecls[Last(k)])

\* FOO declared ON and then OFF: one entry, with the later default.
C5_Witness ==
    \E t \in Threads :
        /\ pc[t] = "done" /\ resp[t].kind = "page"
        /\ Len(cmakeDecls) = 2
        /\ \A i \in 1..2 : Matched(cmakeDecls[i]) /\ cmakeDecls[i].name = "FOO"
        /\ cmakeDecls[1].token = "ON" /\ cmakeDecls[2].token = "OFF"
        /\ Len(resp[t].options) = 1
        /\ resp[t].options[1].entry.value = FALSE

====
